---------------------------- MODULE Spec2Model ----------------------------
(***************************************************************************)
(* A model of qr_generator.py: the validators is_valid_url and             *)
(* is_hex_color, the pipeline generate_qr (validate, encode, render,       *)
(* normalise the output path, save) and the CLI entry point main.          *)
(*                                                                         *)
(* A Python str is modelled as a sequence of one-character strings.        *)
(***************************************************************************)
EXTENDS Integers, Sequences, FiniteSets, TLC

VARIABLES
    req,        \* invocation -> the arguments generate_qr was called with
    pc,         \* invocation -> the stage generate_qr has reached
    qr,         \* invocation -> the data handed to the QRCode object
    img,        \* invocation -> the image make_image returned
    returned,   \* invocation -> the value generate_qr returned
    error,      \* invocation -> the exception generate_qr raised
    printed,    \* invocation -> the path main printed
    calls,      \* invocation -> the library calls made so far, in order
    hist,       \* invocation -> the stages entered so far, in order
    fs,         \* the files on disk: a set of <<resolved path, content>>
    denied,     \* the directories the process may not write to
    writes,     \* the successful writes so far, in order
    arg,        \* the argument of a validator called on its own
    ret         \* what that validator returned

vars == <<req, pc, qr, img, returned, error, printed, calls, hist, fs,
          denied, writes, arg, ret>>

-----------------------------------------------------------------------------
(* Bounds of the model.                                                    *)

MaxColorLen == 7     \* longest colour string given to is_hex_color alone
MaxPad == 1          \* most whitespace characters on either side of a URL
MaxRestLen == 3      \* longest text after the scheme separator of a URL
MaxHostLen == 2      \* longest host of a URL given to generate_qr
MaxNameLen == 3      \* longest file name of an output path
EncoderCapacity == 10\* most characters the encoder fits into a symbol

-----------------------------------------------------------------------------
(* Strings.                                                                *)

\* str.strip() with no argument strips whitespace.
Whitespace == {" ", "\t", "\n"}

RECURSIVE LStrip(_)
LStrip(s) ==
    IF s # <<>> /\ Head(s) \in Whitespace THEN LStrip(Tail(s)) ELSE s

RECURSIVE RStrip(_)
RStrip(s) ==
    IF s # <<>> /\ s[Len(s)] \in Whitespace
    THEN RStrip(SubSeq(s, 1, Len(s) - 1)) ELSE s

Strip(s) == RStrip(LStrip(s))

\* s[i:] and s[:i] with Python's 0-based index i.
From(s, i) == SubSeq(s, i + 1, Len(s))
UpTo(s, i) == SubSeq(s, 1, i)

\* str.find / str.rfind: the 0-based index of the first / last c, or -1.
Find(s, c) ==
    IF \E i \in 1..Len(s) : s[i] = c
    THEN (CHOOSE i \in 1..Len(s) : s[i] = c /\ \A j \in 1..(i - 1) : s[j] # c) - 1
    ELSE -1

RFind(s, c) ==
    IF \E i \in 1..Len(s) : s[i] = c
    THEN (CHOOSE i \in 1..Len(s) :
              s[i] = c /\ \A j \in (i + 1)..Len(s) : s[j] # c) - 1
    ELSE -1

Contains(s, c) == \E i \in 1..Len(s) : s[i] = c

LowerChar(c) ==
    CASE c = "H" -> "h" [] c = "T" -> "t" [] c = "P" -> "p" [] c = "S" -> "s"
      [] c = "F" -> "f" [] OTHER -> c

Lower(s) == [i \in 1..Len(s) |-> LowerChar(s[i])]

Repeat(c, n) == [i \in 1..n |-> c]

SeqsUpTo(S, n) == UNION {[1..k -> S] : k \in 0..n}

-----------------------------------------------------------------------------
(* is_hex_color and the regular expression HEX_COLOR.                      *)

HexDigits ==
    {"0", "1", "2", "3", "4", "5", "6", "7", "8", "9",
     "a", "b", "c", "d", "e", "f", "A", "B", "C", "D", "E", "F"}

\* The pattern's "$": at the end of the string, or just before a newline
\* that is the string's last character.  pos counts the characters consumed.
DollarMatches(s, pos) ==
    \/ pos = Len(s)
    \/ pos = Len(s) - 1 /\ s[Len(s)] = "\n"

\* "#" then n hexadecimal digits, matched from the start of s ("^", and
\* re.match anchors there too); the number of characters consumed is n + 1.
HashAndDigits(s, n) ==
    /\ Len(s) >= n + 1
    /\ s[1] = "#"
    /\ \A i \in 2..(n + 1) : s[i] \in HexDigits

\* HEX_COLOR.match(value) is not None.
HEX_COLOR_match(s) ==
    \E n \in {3, 6} : HashAndDigits(s, n) /\ DollarMatches(s, n + 1)

is_hex_color(value) == HEX_COLOR_match(value)

-----------------------------------------------------------------------------
(* is_valid_url and urllib.parse.urlparse.                                 *)

Letters == {"h", "t", "p", "s", "f", "a", "q", "g", "H", "T", "P", "S", "F"}
SchemeChars == Letters \cup {"0", "1", "2", "3", "4", "5", "6", "7", "8", "9",
                             "+", "-", "."}

\* urlsplit drops these characters wherever they stand in the URL.
UnsafeBytes == {"\t", "\r", "\n"}
RemoveUnsafe(s) == SelectSeq(s, LAMBDA c : c \notin UnsafeBytes)

\* The scheme: the text before the first ":" when it starts with a letter
\* and holds scheme characters only, lowercased; otherwise no scheme.
HasScheme(u) ==
    LET i == Find(u, ":") IN
    /\ i > 0
    /\ u[1] \in Letters
    /\ \A k \in 1..i : u[k] \in SchemeChars

SchemeOf(u) == IF HasScheme(u) THEN Lower(UpTo(u, Find(u, ":"))) ELSE <<>>
AfterScheme(u) == IF HasScheme(u) THEN From(u, Find(u, ":") + 1) ELSE u

\* _splitnetloc(url, 2): the netloc runs to the first of "/", "?", "#".
NetlocEnd(u) ==
    IF \E i \in 3..Len(u) : u[i] \in {"/", "?", "#"}
    THEN (CHOOSE i \in 3..Len(u) :
              u[i] \in {"/", "?", "#"}
              /\ \A j \in 3..(i - 1) : u[j] \notin {"/", "?", "#"}) - 1
    ELSE Len(u)

NetlocOf(u) ==
    IF Len(u) >= 2 /\ u[1] = "/" /\ u[2] = "/"
    THEN SubSeq(u, 3, NetlocEnd(u)) ELSE <<>>

\* urlsplit raises ValueError("Invalid IPv6 URL") on an unmatched bracket.
RaisesValueError(netloc) ==
    \/ Contains(netloc, "[") /\ ~Contains(netloc, "]")
    \/ Contains(netloc, "]") /\ ~Contains(netloc, "[")

\* urlparse(url): the result, as a set of one record with the scheme and
\* the netloc found, or the empty set when urlsplit raised.
urlparse(url) ==
    {parsed \in {[scheme |-> SchemeOf(u), netloc |-> NetlocOf(AfterScheme(u))] :
                    u \in {RemoveUnsafe(LStrip(url))}} :
        ~RaisesValueError(parsed.netloc)}

\* try: parsed = urlparse(url.strip()); return ... / except: return False
is_valid_url_anyScheme(url) ==
    \E stripped \in {Strip(url)} : \E parsed \in urlparse(stripped) :
        parsed.netloc # <<>>

is_valid_url(url) ==
    \E stripped \in {Strip(url)} : \E parsed \in urlparse(stripped) :
        parsed.scheme \in {<<"h", "t", "t", "p">>, <<"h", "t", "t", "p", "s">>}
        /\ parsed.netloc # <<>>

-----------------------------------------------------------------------------
(* pathlib.Path: whether the path is absolute, and its parts.              *)

\* The working directory of the process, and the directory of the
\* absolute output paths.
Cwd == << <<"w">> >>
OutDir == <<"o">>

\* Path(...) drops empty and "." components while parsing.
Path(abs, comps) ==
    [abs |-> abs, parts |-> SelectSeq(comps, LAMBDA c : c \notin {<<>>, <<".">>})]

\* PurePath.name: the last part, or "" when there is none.
Name(p) == IF p.parts = <<>> THEN <<>> ELSE p.parts[Len(p.parts)]

Parent(p) ==
    [abs |-> p.abs,
     parts |-> IF p.parts = <<>> THEN <<>> ELSE SubSeq(p.parts, 1, Len(p.parts) - 1)]

\* PurePath.suffix: from the last "." of the name, unless that "." is the
\* first or the last character of the name.
Suffix(name) ==
    LET i == RFind(name, ".") IN
    IF 0 < i /\ i < Len(name) - 1 THEN From(name, i) ELSE <<>>

PNG == <<".", "p", "n", "g">>

\* PurePath.with_suffix raises ValueError when the name is empty.
with_suffix_raises(p) == Name(p) = <<>>

with_suffix_keepExisting(p, suffix) ==
    LET name == Name(p)
        new == IF Suffix(name) = <<>> THEN name \o suffix ELSE name
    IN [abs |-> p.abs, parts |-> Parent(p).parts \o <<new>>]

with_suffix(p, suffix) ==
    LET name == Name(p)
        old == Suffix(name)
        new == IF old = <<>> THEN name \o suffix
               ELSE UpTo(name, Len(name) - Len(old)) \o suffix
    IN [abs |-> p.abs, parts |-> Parent(p).parts \o <<new>>]

\* Path.resolve(): an absolute path stays, a relative one is taken from
\* the working directory.
resolve(p) == IF p.abs THEN p ELSE [abs |-> TRUE, parts |-> Cwd \o p.parts]

-----------------------------------------------------------------------------
(* The libraries generate_qr calls.                                        *)

ERROR_CORRECT_M == "M"

\* qr.add_data(url); qr.make(fit=True): the data does not fit any version.
DataOverflow(data) == Len(data) > EncoderCapacity

QRCode(r, data) ==
    [version |-> "auto", error_correction |-> ERROR_CORRECT_M,
     box_size |-> r.box_size, border |-> r.border, data |-> data]

\* qr.make_image(fill_color, back_color)
make_image(q, r) ==
    [qr |-> q, fill_color |-> r.fill_color, back_color |-> r.back_color]

\* img.save(path) writes the image as a PNG file, replacing what was there.
FileOf(image) == [format |-> "PNG", image |-> image]
WriteFile(files, path, content) ==
    {f \in files : f[1] # resolve(path)} \cup {<<resolve(path), content>>}

FileAt(files, path) == {f[2] : f \in {g \in files : g[1] = resolve(path)}}

PermissionDenied(path) == Parent(resolve(path)).parts \in denied

-----------------------------------------------------------------------------
(* generate_qr, one invocation p at a time.                                *)

\* The invocations the model can hold; those running are DOMAIN pc.
MaxInvocations == 2
Invocations == 1..MaxInvocations

At(p, stage) == p \in DOMAIN pc /\ pc[p] = stage

Enter(p, stage) ==
    /\ pc' = [pc EXCEPT ![p] = stage]
    /\ hist' = [hist EXCEPT ![p] = Append(@, stage)]

Raise(p, type, kind, detail) ==
    /\ Enter(p, "Failed")
    /\ error' = [error EXCEPT ![p] = {[type |-> type, kind |-> kind, detail |-> detail]}]

Call(p, fn, with) == calls' = [calls EXCEPT ![p] = Append(@, [fn |-> fn, with |-> with])]

ValidatorsIdle == UNCHANGED <<arg, ret>>

\* Lines 75-79: the URL check, then the colour check.  checks is the
\* sequence of <<passed, exception raised otherwise>>, in the order made.
InvalidUrl(r) == [type |-> "ValueError", kind |-> "InvalidPayload", detail |-> r.url]
InvalidColors(r) == [type |-> "ValueError", kind |-> "InvalidColor", detail |-> <<>>]

ValidateWith(p, checks) ==
    /\ LET failed == {i \in 1..Len(checks) : ~checks[i][1]}
           raised == {checks[i][2] : i \in {j \in failed : \A k \in failed : j <= k}}
       IN /\ error' = [error EXCEPT ![p] = raised]
          /\ Enter(p, IF raised = {} THEN "Validated" ELSE "Failed")
    /\ UNCHANGED <<req, qr, img, returned, printed, calls, fs, denied, writes>>
    /\ ValidatorsIdle

Validate_colorsFirst(p) ==
    /\ At(p, "Unvalidated")
    /\ \E url_ok \in {is_valid_url(req[p].url)},
          fill_ok \in {is_hex_color(req[p].fill_color)},
          back_ok \in {is_hex_color(req[p].back_color)} :
        ValidateWith(p, << <<fill_ok /\ back_ok, InvalidColors(req[p])>>,
                           <<url_ok, InvalidUrl(req[p])>> >>)

Validate_bothColors(p) ==
    /\ At(p, "Unvalidated")
    /\ \E url_ok \in {is_valid_url(req[p].url)},
          fill_ok \in {is_hex_color(req[p].fill_color)},
          back_ok \in {is_hex_color(req[p].back_color)} :
        ValidateWith(p, << <<url_ok, InvalidUrl(req[p])>>,
                           <<fill_ok \/ back_ok, InvalidColors(req[p])>> >>)

Validate(p) ==
    /\ At(p, "Unvalidated")
    /\ \E url_ok \in {is_valid_url(req[p].url)},
          fill_ok \in {is_hex_color(req[p].fill_color)},
          back_ok \in {is_hex_color(req[p].back_color)} :
        ValidateWith(p, << <<url_ok, InvalidUrl(req[p])>>,
                           <<fill_ok /\ back_ok, InvalidColors(req[p])>> >>)

\* Lines 83-92: QRCode(...), add_data(url), make(fit=True).
EncodeWith(p, data) ==
    /\ At(p, "Validated")
    /\ Call(p, "encode", data)
    /\ IF DataOverflow(data)
       THEN Raise(p, "DataOverflowError", "PayloadTooLarge", data) /\ UNCHANGED qr
       ELSE /\ qr' = [qr EXCEPT ![p] = {QRCode(req[p], data)}]
            /\ Enter(p, "Encoded")
            /\ UNCHANGED error
    /\ UNCHANGED <<req, img, returned, printed, fs, denied, writes>>
    /\ ValidatorsIdle

Encode_stripped(p) == EncodeWith(p, Strip(req[p].url))

Encode_truncating(p) ==
    EncodeWith(p, UpTo(req[p].url,
                       IF Len(req[p].url) > EncoderCapacity
                       THEN EncoderCapacity ELSE Len(req[p].url)))

Encode(p) == EncodeWith(p, req[p].url)

\* Line 93: make_image(fill_color, back_color).
Render(p) ==
    /\ At(p, "Encoded")
    /\ \E q \in qr[p] :
        /\ Call(p, "render", q.data)
        /\ img' = [img EXCEPT ![p] = {make_image(q, req[p])}]
    /\ Enter(p, "Rendered")
    /\ UNCHANGED <<req, qr, returned, error, printed, fs, denied, writes>>
    /\ ValidatorsIdle

\* Lines 96-98: with_suffix(".png"), img.save(out_path), return out_path.
\* exclusive: the file is opened for exclusive creation; retry: a failed
\* write is tried again; returns: which path is returned, the one saved to
\* or the one given.
SaveWith(p, exclusive, retry, returns) ==
    /\ At(p, "Rendered")
    /\ IF with_suffix_raises(req[p].out_path)
       THEN /\ Raise(p, "ValueError", "WriteFailure", <<>>)
            /\ UNCHANGED <<calls, fs, writes, returned>>
       ELSE LET out_path == with_suffix(req[p].out_path, PNG) IN
            \E image \in img[p] :
            /\ Call(p, "write", out_path)
            /\ IF \/ PermissionDenied(out_path)
                  \/ exclusive /\ FileAt(fs, out_path) # {}
               THEN /\ IF retry
                       THEN UNCHANGED <<pc, hist, error>>
                       ELSE Raise(p, "OSError", "WriteFailure", <<>>)
                    /\ UNCHANGED <<fs, writes, returned>>
               ELSE /\ fs' = WriteFile(fs, out_path, FileOf(image))
                    /\ writes' = Append(writes, [by |-> p, path |-> resolve(out_path),
                                                 content |-> FileOf(image)])
                    /\ returned' = [returned EXCEPT
                                       ![p] = {IF returns = "given" THEN req[p].out_path
                                               ELSE out_path}]
                    /\ Enter(p, "Persisted")
                    /\ UNCHANGED error
    /\ UNCHANGED <<req, qr, img, printed, denied>>
    /\ ValidatorsIdle

Save_exclusive(p) == SaveWith(p, TRUE, FALSE, "saved")
Save_retrying(p) == SaveWith(p, FALSE, TRUE, "saved")
Save_returnsGiven(p) == SaveWith(p, FALSE, FALSE, "given")

Save(p) == SaveWith(p, FALSE, FALSE, "saved")

\* Lines 111-121: main prints saved.resolve().
main(p) ==
    /\ At(p, "Persisted")
    /\ printed[p] = {}
    /\ \E saved \in returned[p] :
        printed' = [printed EXCEPT ![p] = {resolve(saved)}]
    /\ UNCHANGED <<req, pc, qr, img, returned, error, calls, hist, fs, denied, writes>>
    /\ ValidatorsIdle

-----------------------------------------------------------------------------
(* The validators called on their own.                                     *)

Bool(b) == IF b THEN "True" ELSE "False"

PipelineIdle ==
    UNCHANGED <<req, pc, qr, img, returned, error, printed, calls, hist, fs,
                denied, writes>>

CallIsHexColor ==
    /\ ret = "pending"
    /\ ret' = Bool(is_hex_color(arg))
    /\ UNCHANGED arg
    /\ PipelineIdle

CallIsValidUrl ==
    /\ ret = "pending"
    /\ ret' = Bool(is_valid_url(arg))
    /\ UNCHANGED arg
    /\ PipelineIdle

-----------------------------------------------------------------------------
(* Inputs.                                                                 *)

DefaultBoxSize == 10
DefaultBorder == 4

HTTP == <<"h", "t", "t", "p">>
HTTPS == <<"h", "t", "t", "p", "s">>
SchemeSep == <<":", "/", "/">>

\* Colour strings: every string over a hex letter, a hex digit, a letter
\* that is no hex digit, "#" and the newline.
ColorInputs == SeqsUpTo({"#", "F", "0", "g", "\n"}, MaxColorLen)

\* URL strings: padding, a scheme, a separator, the rest, padding.
SchemeInputs ==
    {HTTP, HTTPS, <<"H", "T", "T", "P">>, <<"H", "t", "t", "p", "s">>,
     <<"f", "t", "p">>, <<"h", "t", "t">>, <<"h", "t", "\t", "t", "p">>, <<>>}
SepInputs == {SchemeSep, <<":", "/">>, <<":">>, <<"/", "/">>, <<>>}
UrlInputs ==
    {Repeat(" ", l) \o s \o sep \o rest \o Repeat(" ", r) :
        l \in 0..MaxPad, r \in 0..MaxPad, s \in SchemeInputs, sep \in SepInputs,
        rest \in SeqsUpTo({"a", "/", ":", "["}, MaxRestLen)}

\* The requests of the pipeline.
PipelineUrls ==
    {Repeat(" ", pad) \o s \o SchemeSep \o Repeat("a", n) \o Repeat(" ", pad) :
        pad \in {0, 1}, s \in {HTTPS, <<"H", "T", "T", "P">>, <<"f", "t", "p">>},
        n \in 0..MaxHostLen}
PipelineColors ==
    {<<"#", "0", "0", "0">>, <<"b", "l", "u", "e">>, <<"#", "F", "F", "F", "\n">>}
FileNames ==
    SeqsUpTo({"q", ".", "g"}, MaxNameLen) \cup {<<"q">> \o PNG}
PipelinePaths ==
    {Path(FALSE, <<n>>) : n \in FileNames} \cup {Path(TRUE, <<OutDir, n>>) : n \in FileNames}

Request(url, out_path, fill_color, back_color) ==
    [url |-> url, out_path |-> out_path, box_size |-> DefaultBoxSize,
     border |-> DefaultBorder, fill_color |-> fill_color, back_color |-> back_color]

Requests ==
    {Request(u, o, f, b) :
        u \in PipelineUrls, o \in PipelinePaths, f \in PipelineColors, b \in PipelineColors}

\* Two invocations at once: short and long URLs, paths that normalise to
\* the same file and to different ones, good and bad colours.
ConcurrentRequests ==
    {Request(u, o, f, <<"#", "F", "F", "F">>) :
        u \in {HTTPS \o SchemeSep \o <<"a">>, HTTP \o SchemeSep \o <<"a">>},
        o \in {Path(FALSE, << <<"q">> >>), Path(FALSE, << <<"q", ".", "g">> >>),
               Path(TRUE, Cwd \o << <<"q">> >>), Path(FALSE, << <<"g">> >>)},
        f \in {<<"#", "0", "0", "0">>, <<"b", "l", "u", "e">>}}

-----------------------------------------------------------------------------
(* Specifications.                                                         *)

Started(reqs) ==
    /\ req = reqs
    /\ pc = [p \in DOMAIN reqs |-> "Unvalidated"]
    /\ hist = [p \in DOMAIN reqs |-> <<"Unvalidated">>]
    /\ qr = [p \in DOMAIN reqs |-> {}]
    /\ img = [p \in DOMAIN reqs |-> {}]
    /\ returned = [p \in DOMAIN reqs |-> {}]
    /\ error = [p \in DOMAIN reqs |-> {}]
    /\ printed = [p \in DOMAIN reqs |-> {}]
    /\ calls = [p \in DOMAIN reqs |-> <<>>]
    /\ fs = {}
    /\ writes = <<>>

\* One invocation, of any request.
Init ==
    /\ \E r \in Requests : Started([p \in {1} |-> r])
    /\ denied \in {{}, {<<OutDir>>}}
    /\ arg = <<>>
    /\ ret = "unused"

Next ==
    \/ \E p \in Invocations : Validate(p)
    \/ \E p \in Invocations : Encode(p)
    \/ \E p \in Invocations : Render(p)
    \/ \E p \in Invocations : Save(p)
    \/ \E p \in Invocations : main(p)

Spec == Init /\ [][Next]_vars

\* Two invocations whose steps interleave.
InitConcurrent ==
    /\ \E r1 \in ConcurrentRequests, r2 \in ConcurrentRequests :
        Started([p \in {1, 2} |-> IF p = 1 THEN r1 ELSE r2])
    /\ denied = {}
    /\ arg = <<>>
    /\ ret = "unused"

SpecConcurrent == InitConcurrent /\ [][Next]_vars

\* is_hex_color on its own.
InitHex ==
    /\ Started(<<>>)
    /\ denied = {}
    /\ arg \in ColorInputs
    /\ ret = "pending"

SpecHex == InitHex /\ [][CallIsHexColor]_vars

\* is_valid_url on its own.
InitUrl ==
    /\ Started(<<>>)
    /\ denied = {}
    /\ arg \in UrlInputs
    /\ ret = "pending"

SpecUrl == InitUrl /\ [][CallIsValidUrl]_vars

-----------------------------------------------------------------------------
(* Properties.                                                             *)

Running == DOMAIN pc

Step(p) == Validate(p) \/ Encode(p) \/ Render(p) \/ Save(p)

CallsOf(p, fn) == {i \in 1..Len(calls[p]) : calls[p][i].fn = fn}
WritesBy(p) == {i \in 1..Len(writes) : writes[i].by = p}

FailedWith(p, type, kind) ==
    /\ pc[p] = "Failed"
    /\ \E e \in error[p] : e.type = type /\ e.kind = kind
    /\ Cardinality(error[p]) = 1

ColorsPass(r) == is_hex_color(r.fill_color) /\ is_hex_color(r.back_color)

EndsWith(s, t) == Len(s) >= Len(t) /\ SubSeq(s, Len(s) - Len(t) + 1, Len(s)) = t
StartsWith(s, t) == Len(s) >= Len(t) /\ SubSeq(s, 1, Len(t)) = t

\* C1: a request whose URL fails validation ends in InvalidPayload, a
\* ValueError naming the URL, and in that run nothing is encoded, nothing is
\* rendered and nothing is written, whatever the request's other fields are.
C1_InvalidUrlFailsBeforeAnyWork ==
    \A p \in Running :
        ~is_valid_url(req[p].url) =>
            /\ calls[p] = <<>>
            /\ WritesBy(p) = {}
            /\ qr[p] = {} /\ img[p] = {} /\ returned[p] = {}
            /\ \/ pc[p] = "Unvalidated"
               \/ /\ FailedWith(p, "ValueError", "InvalidPayload")
                  /\ \A e \in error[p] : e.detail = req[p].url

C1_Witness ==
    \E p \in Running :
        /\ req[p].url = <<"f", "t", "p">> \o SchemeSep \o <<"a">>
        /\ ~ColorsPass(req[p])
        /\ FailedWith(p, "ValueError", "InvalidPayload")

\* C2: a request with a valid URL whose fill colour or back colour (either
\* or both) fails the hex check ends in InvalidColor with no encoder call,
\* no renderer call and no write made.
C2_BadColorFailsBeforeEncoding ==
    \A p \in Running :
        is_valid_url(req[p].url) /\ ~ColorsPass(req[p]) =>
            /\ calls[p] = <<>>
            /\ WritesBy(p) = {}
            /\ qr[p] = {} /\ img[p] = {}
            /\ \/ pc[p] = "Unvalidated"
               \/ FailedWith(p, "ValueError", "InvalidColor")

C2_Witness ==
    \E p \in Running :
        /\ is_valid_url(req[p].url)
        /\ is_hex_color(req[p].fill_color)
        /\ ~is_hex_color(req[p].back_color)
        /\ FailedWith(p, "ValueError", "InvalidColor")

\* C3: after a successful call the path written and the path returned are
\* one path, and its name ends in ".png", whatever name the caller gave.
C3_SavedAndReturnedPathIsPng ==
    \A p \in Running :
        pc[p] = "Persisted" =>
            \E out \in returned[p] :
                /\ returned[p] = {out}
                /\ EndsWith(Name(out), PNG)
                /\ \A i \in CallsOf(p, "write") : calls[p][i].with = out
                /\ \A i \in WritesBy(p) : writes[i].path = resolve(out)
                /\ CallsOf(p, "write") # {} /\ WritesBy(p) # {}

C3_Witness ==
    \E p \in Running :
        /\ pc[p] = "Persisted"
        /\ Name(req[p].out_path) = <<"q", ".", "g">>
        /\ \E out \in returned[p] : Name(out) = <<"q">> \o PNG

Stages == <<"Unvalidated", "Validated", "Encoded", "Rendered", "Persisted">>
NamedFailures == {"InvalidPayload", "InvalidColor", "PayloadTooLarge", "WriteFailure"}

\* C6: an invocation enters the stages Unvalidated, Validated, Encoded,
\* Rendered, Persisted in that order, none twice and none skipped, until it
\* is Persisted or has failed with a named failure; it never stops before;
\* it attempts the write at most once, exactly once when it succeeds, and
\* only after the validation, the encoder call and the renderer call.
C6_StraightLinePipeline ==
    \A p \in Running :
        /\ pc[p] = hist[p][Len(hist[p])]
        /\ \E n \in 1..Len(Stages) :
            \/ hist[p] = SubSeq(Stages, 1, n)
            \/ n < Len(Stages) /\ hist[p] = Append(SubSeq(Stages, 1, n), "Failed")
        /\ pc[p] = "Failed" =>
            \E e \in error[p] : error[p] = {e} /\ e.kind \in NamedFailures
        /\ pc[p] \notin {"Persisted", "Failed"} => ENABLED Step(p)
        /\ Cardinality(CallsOf(p, "write")) <= 1
        /\ pc[p] = "Persisted" => Cardinality(CallsOf(p, "write")) = 1
        /\ \A i \in CallsOf(p, "write") :
            /\ i = 3
            /\ calls[p][1].fn = "encode" /\ calls[p][2].fn = "render"
            /\ SubSeq(hist[p], 1, 4) = SubSeq(Stages, 1, 4)
            /\ qr[p] # {} /\ img[p] # {}

C6_Witness ==
    \E p \in Running :
        /\ hist[p] = Stages
        /\ Cardinality(CallsOf(p, "write")) = 1

\* C7: a request that passes validation and whose payload the encoder
\* cannot fit fails with PayloadTooLarge, the encoder's own exception; the
\* renderer is not called and no file is created or overwritten.
C7_OverflowFailsWithoutOutput ==
    \A p \in Running :
        /\ is_valid_url(req[p].url)
        /\ ColorsPass(req[p])
        /\ DataOverflow(req[p].url)
        => /\ CallsOf(p, "render") = {} /\ CallsOf(p, "write") = {}
           /\ WritesBy(p) = {}
           /\ FileAt(fs, with_suffix(req[p].out_path, PNG)) = {}
           /\ qr[p] = {} /\ img[p] = {} /\ returned[p] = {}
           /\ \/ pc[p] \in {"Unvalidated", "Validated"}
              \/ FailedWith(p, "DataOverflowError", "PayloadTooLarge")

C7_Witness ==
    \E p \in Running :
        /\ FailedWith(p, "DataOverflowError", "PayloadTooLarge")
        /\ calls[p] = <<[fn |-> "encode", with |-> req[p].url]>>

\* C8, as stated: on success the value generate_qr returns is the resolved
\* absolute path of the file written.
C8_ReturnsResolvedPath ==
    \A p \in Running :
        pc[p] = "Persisted" =>
            \E out \in returned[p] :
                /\ out.abs
                /\ out = resolve(out)
                /\ FileAt(fs, out) # {}

\* C8, amended: on success generate_qr returns the normalised path it
\* saved to, absolute exactly when the caller's path was absolute, and that
\* path denotes the file written; main resolves it to an absolute path
\* before printing it.
C8_ReturnsSavedPathMainResolves ==
    \A p \in Running :
        pc[p] = "Persisted" =>
            \E out \in returned[p] :
                /\ returned[p] = {out}
                /\ out.abs = req[p].out_path.abs
                /\ Parent(out) = Parent(req[p].out_path)
                /\ WritesBy(p) # {}
                /\ \A i \in WritesBy(p) : writes[i].path = resolve(out)
                /\ FileAt(fs, out) # {}
                /\ \A shown \in printed[p] :
                    shown.abs /\ shown = resolve(out) /\ FileAt(fs, shown) # {}

C8_Witness ==
    \E p \in Running :
        /\ pc[p] = "Persisted"
        /\ ~req[p].out_path.abs
        /\ Name(req[p].out_path) = <<"q">>
        /\ \E out \in returned[p] : ~out.abs
        /\ \E shown \in printed[p] : shown.abs

\* C10: the payload handed to the encoder is the URL exactly as the caller
\* gave it, surrounding whitespace included, also when the URL passed
\* validation only because validation trims it.
C10_EncodesUntrimmedPayload ==
    \A p \in Running :
        /\ \A i \in CallsOf(p, "encode") : calls[p][i].with = req[p].url
        /\ \A q \in qr[p] : q.data = req[p].url
        /\ \A image \in img[p] : image.qr.data = req[p].url

C10_Witness ==
    \E p \in Running :
        /\ Strip(req[p].url) # req[p].url
        /\ \E q \in qr[p] : q.data = req[p].url
        /\ pc[p] = "Persisted"

\* C4, as stated: is_hex_color(s) is true exactly when s is "#" followed by
\* exactly 3 or exactly 6 hexadecimal digits and nothing else; a string with
\* a trailing line terminator is rejected.
C4_HexColorIsFullMatch ==
    ret # "pending" =>
        (ret = "True" <=>
            /\ Len(arg) \in {4, 7}
            /\ arg[1] = "#"
            /\ \A i \in 2..Len(arg) : arg[i] \in HexDigits)

\* The text after the first k characters of s, up to the first "/", "?"
\* or "#", is not empty.
NetlocFollows(s, k) == Len(s) > k /\ s[k + 1] \notin {"/", "?", "#"}

\* That text up to its first ":", the host, is not empty.
HostFollows(s, k) == NetlocFollows(s, k) /\ s[k + 1] # ":"

ValidRequest(r) ==
    /\ is_valid_url(r.url)
    /\ ColorsPass(r)
    /\ ~DataOverflow(r.url)
    /\ ~with_suffix_raises(r.out_path)

=============================================================================
